---- MODULE Spec2Model ----
(***************************************************************************)
(* A model of src/src/platform.ts: the browser-side EventEmitterImpl, the *)
(* makeWaitForNextTask scheduler and WebSocketTransport.                   *)
(***************************************************************************)
EXTENDS Integers, Sequences, FiniteSets, TLC

\* ------------------------------------------------------------------------
\* Bounds and input sets
\* ------------------------------------------------------------------------

\* Event names passed to on/once/removeListener/emit.
Events == {"x", "y"}

\* User callbacks (function references) handed to on/once.
Fns == {"f1", "f2"}

\* At most this many on/once/removeListener/emit calls in one behaviour.
MaxCalls == 4

\* An optional value (a field that may be undefined, the result of Map.get) is
\* a sequence of at most one element: Undefined, or Some(v) holding v.
Undefined == <<>>

Some(v) == <<v>>

Value(optional) == optional[1]

VARIABLES
  listeners,      \* EventEmitterImpl._listeners : event -> Set<Listener> | undefined
  deliveryQueue,  \* EventEmitterImpl._deliveryQueue : pairs | undefined
  stack,          \* the JS call stack: emit frames (with their loop index) and running callbacks
  history,        \* the API calls made by user code so far, with their caller
  appended,       \* every pair ever pushed on a delivery queue, in push order
  invoked,        \* every pair ever invoked by a drain loop, in invocation order
  nodeVersion,    \* parseInt(process.versions.node, 10), or undefined when not in Node.js
  spinning,       \* makeWaitForNextTask: spinning
  callbacks,      \* makeWaitForNextTask: callbacks
  immediateQueue, \* the host's list of setImmediate callbacks waiting for the next check phase
  phase,          \* the immediates the running check phase still has to run
  task,           \* the code that is running now: nothing, an I/O callback or a deferred callback
  turn,           \* number of the current turn (a stretch of code between two microtask drains)
  submitted,      \* every callback passed to the scheduler, with the turn of the call, in call order
  ran,            \* every callback the scheduler invoked, with the turn it ran in, in order
  threw,          \* the callbacks that threw
  microtasks,     \* the host's microtask queue: the pending steps of `await this._connect`
  readyState,     \* WebSocketTransport._ws.readyState
  connect,        \* the state of the promise WebSocketTransport._connect
  reactions,      \* the reactions registered on _connect while it is pending
  errorFired,     \* the socket has dispatched its 'error' event
  sends,          \* every send() call: readyState at the call, and how its promise settled
  handed,         \* the send() calls whose message reached this._ws.send, in order
  wire,           \* the messages the socket transmitted, in order
  closeCalls,     \* number of close() calls so far
  oncloseCalls,   \* number of invocations of the onclose hook
  argUrlString,   \* urlMatches: the argument urlString of the call
  argMatch,       \* urlMatches: the argument match of the call
  returned        \* urlMatches: how the call ended, undefined before it

emitterVars == <<listeners, deliveryQueue, stack, history, appended, invoked>>

schedVars ==
  <<nodeVersion, spinning, callbacks, immediateQueue, phase, task, turn, submitted, ran, threw>>

transportVars ==
  <<microtasks, readyState, connect, reactions, errorFired, sends, handed, wire,
    closeCalls, oncloseCalls>>

urlVars == <<argUrlString, argMatch, returned>>

vars == <<emitterVars, schedVars, transportVars, urlVars>>

notEmitterVars == <<schedVars, transportVars, urlVars>>

notSchedVars == <<emitterVars, transportVars, urlVars>>

\* ------------------------------------------------------------------------
\* Helpers
\* ------------------------------------------------------------------------

Range(s) == {s[i] : i \in 1..Len(s)}

IsPrefix(s, t) == Len(s) =< Len(t) /\ \A i \in 1..Len(s) : s[i] = t[i]

Last(s) == s[Len(s)]

Front(s) == SubSeq(s, 1, Len(s) - 1)

NoDuplicates(s) == \A i, j \in 1..Len(s) : s[i] = s[j] => i = j

\* ------------------------------------------------------------------------
\* EventEmitterImpl
\* ------------------------------------------------------------------------

\* A listener reference stored in the registry: the user's function itself
\* (wrapped = 0), or the closure `wrapped` that once() creates around it;
\* every once() call creates a new closure, identified by wrapped > 0.
PlainListener(fn) == [fn |-> fn, wrapped |-> 0, event |-> "-"]

WrappedListener(event, fn, id) == [fn |-> fn, wrapped |-> id, event |-> event]

\* An add that does not look for the element first, as an array push would.
SetAddDuplicating(set, listener) == Append(set, listener)

\* Set.add on an insertion-ordered JS Set, kept as a duplicate-free sequence.
SetAdd(set, listener) ==
  IF listener \in Range(set) THEN set ELSE Append(set, listener)

\* Set.delete.
SetDelete(set, listener) == SelectSeq(set, LAMBDA l : l # listener)

\* The registry after on(event, listener).
On(event, listener) ==
  LET set == IF listeners[event] = Undefined THEN <<>> ELSE Value(listeners[event])
  IN  [listeners EXCEPT ![event] = Some(SetAdd(set, listener))]

\* The registry after removeListener(event, listener).
RemoveListener(event, listener) ==
  IF listeners[event] = Undefined THEN listeners
  ELSE [listeners EXCEPT ![event] = Some(SetDelete(Value(listeners[event]), listener))]

\* listenerCount(event).
ListenerCount(event) ==
  IF listeners[event] = Undefined THEN 0 ELSE Len(Value(listeners[event]))

\* An emit that always runs a drain loop of its own.
DispatchAlways == TRUE

\* emit's `dispatch`: this call becomes the drain owner iff no queue exists.
Dispatch == deliveryQueue = Undefined

\* The pairs one emit pushes: one per registered listener, in Set order.
Pairs(set, args) == [i \in 1..Len(set) |-> [listener |-> set[i], args |-> args]]

\* Frames of the call stack.
EmitFrame(index) == [kind |-> "emit", index |-> index, fn |-> "-", listener |-> "-"]

CallFrame(listener) == [kind |-> "call", index |-> 0, fn |-> listener.fn, listener |-> listener]

\* User code runs at top level or inside a running callback.
UserCodeRuns == IF stack = <<>> THEN TRUE ELSE Last(stack).kind = "call"

Caller == IF stack = <<>> THEN "top" ELSE Last(stack).fn

Entry(op, event, fn) == [op |-> op, event |-> event, fn |-> fn, by |-> Caller]

NumOps(ops) == Len(SelectSeq(history, LAMBDA h : h.op \in ops))

NumCalls == NumOps({"on", "once", "removeListener", "emit"})

NumEmits == NumOps({"emit"})

NumOnce == NumOps({"once"})

InitEmitter ==
  /\ listeners = [e \in Events |-> Undefined]
  /\ deliveryQueue = Undefined
  /\ stack = <<>>
  /\ history = <<>>
  /\ appended = <<>>
  /\ invoked = <<>>

\* on(event, listener) called by user code.
OnCall(event, fn) ==
  /\ UserCodeRuns
  /\ NumCalls < MaxCalls
  /\ listeners' = On(event, PlainListener(fn))
  /\ history' = Append(history, Entry("on", event, fn))
  /\ UNCHANGED <<deliveryQueue, stack, appended, invoked>>
  /\ UNCHANGED notEmitterVars

\* once(event, listener) called by user code: registers a new closure.
OnceCall(event, fn) ==
  /\ UserCodeRuns
  /\ NumCalls < MaxCalls
  /\ listeners' = On(event, WrappedListener(event, fn, NumOnce + 1))
  /\ history' = Append(history, Entry("once", event, fn))
  /\ UNCHANGED <<deliveryQueue, stack, appended, invoked>>
  /\ UNCHANGED notEmitterVars

\* removeListener(event, listener) called by user code, which holds only its
\* own function references, never the closures made by once().
RemoveListenerCall(event, fn) ==
  /\ UserCodeRuns
  /\ NumCalls < MaxCalls
  /\ listeners' = RemoveListener(event, PlainListener(fn))
  /\ history' = Append(history, Entry("removeListener", event, fn))
  /\ UNCHANGED <<deliveryQueue, stack, appended, invoked>>
  /\ UNCHANGED notEmitterVars

\* emit(event, ...args) up to the start of its drain loop.  The k-th emit of
\* a behaviour is given args = k, so that pairs of different emissions differ.
EmitCall(event) ==
  /\ UserCodeRuns
  /\ NumCalls < MaxCalls
  /\ history' = Append(history, Entry("emit", event, "-"))
  /\ LET set == listeners[event]
         args == NumEmits + 1
     IN  IF set = Undefined \/ set = Some(<<>>)
         THEN UNCHANGED <<deliveryQueue, stack, appended>>
         ELSE /\ deliveryQueue' =
                   Some((IF deliveryQueue = Undefined THEN <<>> ELSE Value(deliveryQueue))
                          \o Pairs(Value(set), args))
              /\ appended' = appended \o Pairs(Value(set), args)
              /\ stack' = IF Dispatch THEN Append(stack, EmitFrame(0)) ELSE stack
  /\ UNCHANGED <<listeners, invoked>>
  /\ UNCHANGED notEmitterVars

\* A closure that does not unregister itself before calling the listener.
WrappedBodyKeepsRegistered(listener) == listeners

\* The closure of once() (lines 75-78): removeListener(event, wrapped), then
\* the user's function.
WrappedBody(listener) ==
  IF listener.wrapped = 0 THEN listeners
  ELSE RemoveListener(listener.event, listener)

\* A drain loop that passes over a pair whose listener is no longer
\* registered.
DrainStepSkipsRemoved ==
  /\ stack # <<>>
  /\ Last(stack).kind = "emit"
  /\ LET index == Last(stack).index
     IN  IF deliveryQueue = Undefined
         THEN /\ stack' = <<>>
              /\ UNCHANGED <<listeners, deliveryQueue, invoked>>
         ELSE IF index < Len(Value(deliveryQueue))
         THEN LET pair == Value(deliveryQueue)[index + 1]
              IN  IF \E event \in Events :
                       IF listeners[event] = Undefined THEN FALSE
                       ELSE pair.listener \in Range(Value(listeners[event]))
                  THEN /\ invoked' = Append(invoked, pair)
                       /\ listeners' = WrappedBody(pair.listener)
                       /\ stack' = Append(stack, CallFrame(pair.listener))
                       /\ UNCHANGED deliveryQueue
                  ELSE /\ stack' = Append(Front(stack), EmitFrame(index + 1))
                       /\ UNCHANGED <<listeners, deliveryQueue, invoked>>
         ELSE /\ deliveryQueue' = Undefined
              /\ stack' = Front(stack)
              /\ UNCHANGED <<listeners, invoked>>
  /\ UNCHANGED <<history, appended>>
  /\ UNCHANGED notEmitterVars

\* One test of the drain loop's condition: invoke the pair at index, or leave
\* the loop, discard the queue and return.  Invoking a once() closure runs its
\* removeListener(event, wrapped) and then calls the user's function.
DrainStep ==
  /\ stack # <<>>
  /\ Last(stack).kind = "emit"
  /\ LET index == Last(stack).index
     IN  IF deliveryQueue = Undefined
         THEN \* reading .length of undefined: a TypeError unwinds the stack
              /\ stack' = <<>>
              /\ UNCHANGED <<listeners, deliveryQueue, invoked>>
         ELSE IF index < Len(Value(deliveryQueue))
         THEN LET pair == Value(deliveryQueue)[index + 1]
              IN  /\ invoked' = Append(invoked, pair)
                  /\ listeners' = WrappedBody(pair.listener)
                  /\ stack' = Append(stack, CallFrame(pair.listener))
                  /\ UNCHANGED deliveryQueue
         ELSE /\ deliveryQueue' = Undefined
              /\ stack' = Front(stack)
              /\ UNCHANGED <<listeners, invoked>>
  /\ UNCHANGED <<history, appended>>
  /\ UNCHANGED notEmitterVars

\* The running callback returns: the drain loop that called it does index++.
Return ==
  /\ stack # <<>>
  /\ Last(stack).kind = "call"
  /\ LET caller == stack[Len(stack) - 1]
     IN  stack' = Append(SubSeq(stack, 1, Len(stack) - 2), EmitFrame(caller.index + 1))
  /\ UNCHANGED <<listeners, deliveryQueue, history, appended, invoked>>
  /\ UNCHANGED notEmitterVars

\* The running callback throws: nothing in emit catches, so the exception
\* unwinds every frame; the line that discards the queue is not reached.
Throw ==
  /\ stack # <<>>
  /\ Last(stack).kind = "call"
  /\ stack' = <<>>
  /\ history' = Append(history, Entry("throw", "-", "-"))
  /\ UNCHANGED <<listeners, deliveryQueue, appended, invoked>>
  /\ UNCHANGED notEmitterVars

NextEmitter ==
  \/ \E event \in Events, fn \in Fns : OnCall(event, fn)
  \/ \E event \in Events, fn \in Fns : OnceCall(event, fn)
  \/ \E event \in Events, fn \in Fns : RemoveListenerCall(event, fn)
  \/ \E event \in Events : EmitCall(event)
  \/ DrainStep
  \/ Return
  \/ Throw

\* ------------------------------------------------------------------------
\* makeWaitForNextTask and the host's event loop
\* ------------------------------------------------------------------------

\* The hosts the module may be loaded in: a browser (no process.versions.node)
\* or Node.js of one of these major versions.
NodeVersions == {10, 11, 12}

Hosts == {Undefined} \cup {Some(v) : v \in NodeVersions}

\* Line 35.
isNode == nodeVersion # Undefined

\* At most this many callbacks are passed to the scheduler in one behaviour.
MaxDefers == 3

\* Line 282: from Node 11 on the scheduler is setImmediate itself.
FirstFixedNodeVersion == 11

\* A makeWaitForNextTask without the Node 10 workaround.
UsesSetImmediateAlways == TRUE

UsesSetImmediate == Value(nodeVersion) >= FirstFixedNodeVersion

\* In Node 10 and less, microtasks are drained only after all immediates of
\* a check phase have run: the whole phase is one turn.  From Node 11 on they
\* are drained after every immediate: every immediate is a turn of its own.
PhaseIsOneTurn == Value(nodeVersion) < FirstFixedNodeVersion

\* Entries of the host's immediate list: the scheduler's loop, or (when the
\* scheduler is setImmediate) the submitted callback itself.
LoopImmediate == [kind |-> "loop", cb |-> 0]

CallbackImmediate(cb) == [kind |-> "callback", cb |-> cb]

\* What runs now.
NoTask == [kind |-> "none", cb |-> 0]

IoTask == [kind |-> "io", cb |-> 0]

CallbackTask(cb) == [kind |-> "callback", cb |-> cb]

\* A host that runs the immediates of a check phase last in, first out.
SetImmediateLifo(queue, f) == <<f>> \o queue

\* setImmediate(f): f runs in the next check phase.
SetImmediate(queue, f) == Append(queue, f)

\* callbacks.unshift(callback) in place of push.
PushFront(queue, callback) == <<callback>> \o queue

\* callbacks.push(callback).
Push(queue, callback) == Append(queue, callback)

\* A loop that does not re-arm itself.
LoopArmForgotten(queue) == queue

\* Line 300, setImmediate(loop), which loop runs before it calls callback().
LoopArm(queue) == SetImmediate(queue, LoopImmediate)

\* A scheduler that arms loop at every call, spinning or not.
DeferAlwaysArms(callback) ==
  IF UsesSetImmediate
  THEN /\ immediateQueue' = SetImmediate(immediateQueue, CallbackImmediate(callback))
       /\ UNCHANGED <<spinning, callbacks>>
  ELSE /\ callbacks' = Push(callbacks, callback)
       /\ spinning' = TRUE
       /\ immediateQueue' = SetImmediate(immediateQueue, LoopImmediate)

\* The function makeWaitForNextTask returns, applied to callback: either
\* setImmediate(callback), or lines 306-312.
Defer(callback) ==
  IF UsesSetImmediate
  THEN /\ immediateQueue' = SetImmediate(immediateQueue, CallbackImmediate(callback))
       /\ UNCHANGED <<spinning, callbacks>>
  ELSE /\ callbacks' = Push(callbacks, callback)
       /\ spinning' = TRUE
       /\ immediateQueue' =
            IF ~spinning THEN SetImmediate(immediateQueue, LoopImmediate)
            ELSE immediateQueue

NumDefers == Len(submitted)

\* The number of the turn that starts now.  Turns in which no callback was
\* submitted or invoked are not numbered: a new turn takes a new number only
\* if the current number is used in submitted or ran.
TurnUsed ==
  \/ \E i \in 1..Len(submitted) : submitted[i].turn = turn
  \/ \E i \in 1..Len(ran) : ran[i].turn = turn

NextTurn == IF TurnUsed THEN turn + 1 ELSE turn

InitSched ==
  /\ spinning = FALSE
  /\ callbacks = <<>>
  /\ immediateQueue = <<>>
  /\ phase = <<>>
  /\ task = NoTask
  /\ turn = 0
  /\ submitted = <<>>
  /\ ran = <<>>
  /\ threw = {}

\* An I/O callback starts (a new turn) and passes a callback to the scheduler.
IoDefer ==
  /\ task = NoTask
  /\ phase = <<>>
  /\ microtasks = <<>>
  /\ NumDefers < MaxDefers
  /\ task' = IoTask
  /\ turn' = NextTurn
  /\ Defer(NumDefers + 1)
  /\ submitted' = Append(submitted, [cb |-> NumDefers + 1, turn |-> NextTurn])
  /\ UNCHANGED <<nodeVersion, phase, ran, threw>>
  /\ UNCHANGED notSchedVars

\* The running code (an I/O callback or a deferred callback) passes one more
\* callback to the scheduler.
DeferMore ==
  /\ task # NoTask
  /\ NumDefers < MaxDefers
  /\ Defer(NumDefers + 1)
  /\ submitted' = Append(submitted, [cb |-> NumDefers + 1, turn |-> turn])
  /\ UNCHANGED <<nodeVersion, phase, task, turn, ran, threw>>
  /\ UNCHANGED notSchedVars

\* The I/O callback returns.
EndIo ==
  /\ task = IoTask
  /\ task' = NoTask
  /\ UNCHANGED <<nodeVersion, spinning, callbacks, immediateQueue, phase, turn,
                 submitted, ran, threw>>
  /\ UNCHANGED notSchedVars

\* The event loop enters its check phase: it will run the immediates queued
\* so far; immediates queued from now on wait for the next check phase.
CheckPhase ==
  /\ task = NoTask
  /\ phase = <<>>
  /\ microtasks = <<>>
  /\ immediateQueue # <<>>
  /\ phase' = immediateQueue
  /\ immediateQueue' = <<>>
  /\ turn' = IF PhaseIsOneTurn THEN NextTurn ELSE turn
  /\ UNCHANGED <<nodeVersion, spinning, callbacks, task, submitted, ran, threw>>
  /\ UNCHANGED notSchedVars

\* The check phase runs its next immediate: the submitted callback itself, or
\* loop (lines 294-304) up to and including its call of callback().
RunImmediate ==
  /\ task = NoTask
  /\ phase # <<>>
  /\ IF PhaseIsOneTurn THEN TRUE ELSE microtasks = <<>>
  /\ phase' = Tail(phase)
  /\ LET now == IF PhaseIsOneTurn THEN turn ELSE NextTurn
     IN  /\ turn' = now
         /\ IF Head(phase).kind = "callback"
            THEN /\ task' = CallbackTask(Head(phase).cb)
                 /\ ran' = Append(ran, [cb |-> Head(phase).cb, turn |-> now])
                 /\ UNCHANGED <<spinning, callbacks, immediateQueue>>
            ELSE IF callbacks = <<>>
            THEN /\ spinning' = FALSE
                 /\ UNCHANGED <<callbacks, immediateQueue, task, ran>>
            ELSE /\ callbacks' = Tail(callbacks)
                 /\ immediateQueue' = LoopArm(immediateQueue)
                 /\ task' = CallbackTask(Head(callbacks))
                 /\ ran' = Append(ran, [cb |-> Head(callbacks), turn |-> now])
                 /\ UNCHANGED spinning
  /\ UNCHANGED <<nodeVersion, submitted, threw>>
  /\ UNCHANGED notSchedVars

\* The deferred callback returns.
CallbackReturn ==
  /\ task.kind = "callback"
  /\ task' = NoTask
  /\ UNCHANGED <<nodeVersion, spinning, callbacks, immediateQueue, phase, turn,
                 submitted, ran, threw>>
  /\ UNCHANGED notSchedVars

\* The deferred callback throws.  Nothing in loop catches: the exception
\* reaches the host, which reports it and goes on with its event loop.
CallbackThrow ==
  /\ task.kind = "callback"
  /\ task' = NoTask
  /\ threw' = threw \cup {task.cb}
  /\ UNCHANGED <<nodeVersion, spinning, callbacks, immediateQueue, phase, turn,
                 submitted, ran>>
  /\ UNCHANGED notSchedVars

NextSched ==
  \/ IoDefer
  \/ DeferMore
  \/ EndIo
  \/ CheckPhase
  \/ RunImmediate
  \/ CallbackReturn
  \/ CallbackThrow

\* ------------------------------------------------------------------------
\* WebSocketTransport
\* ------------------------------------------------------------------------

\* At most this many send() calls in one behaviour.
MaxSends == 3

\* At most this many close() calls in one behaviour.
MaxCloses == 2

\* From Node 12 on (V8 7.3), and in current browsers, `await p` of a native
\* promise registers the continuation on p directly.  Before that it resolves
\* a fresh promise with p: a job calls p.then, whose reaction resolves the
\* fresh promise, whose reaction is the continuation (three jobs).
FirstDirectAwaitNodeVersion == 12

AwaitIsDirect ==
  IF isNode THEN Value(nodeVersion) >= FirstDirectAwaitNodeVersion ELSE TRUE

Job(send, stage) == [send |-> send, stage |-> stage]

\* A queue that serves the newest entry first.
EnqueueLifo(queue, job) == <<job>> \o queue

\* Registering a reaction on a promise, and queueing a microtask: both are
\* first in, first out.
Enqueue(queue, job) == Append(queue, job)

\* A settlement that loses the registered reactions.
SettleNothing(queue) == queue

\* Lines 327-330: fulfill() or reject() settles _connect once and queues the
\* registered reactions in registration order.
Settle(queue) == queue \o reactions

\* Line 335: messageWrap is the scheduler in Node.js and cb => cb() elsewhere.
MessageWrapIsScheduler == isNode

\* Code of the embedder (not of the socket) may run: in a task of its own, in
\* the onmessage or onclose hook, or in a microtask of its own between two
\* queued microtasks.
UserCodeMayRun ==
  IF task = NoTask THEN phase = <<>> ELSE task.kind \in {"user", "callback", "onclose"}

\* A call from embedder code that starts a task of its own starts a turn.
TaskAfterUserCall ==
  IF task = NoTask /\ microtasks = <<>> THEN [kind |-> "user", cb |-> 0] ELSE task

TurnAfterUserCall == IF task = NoTask /\ microtasks = <<>> THEN NextTurn ELSE turn

NumSends == Len(sends)

\* An await that goes on although _connect is not settled.
AwaitNeverParks == FALSE

\* Line 353: `await this._connect` parks its continuation on _connect while
\* the promise is pending, and queues it as a microtask once it is settled.
AwaitParks == connect = "pending"

InitTransport ==
  /\ microtasks = <<>>
  /\ readyState = "CONNECTING"
  /\ connect = "pending"
  /\ reactions = <<>>
  /\ errorFired = FALSE
  /\ sends = <<>>
  /\ handed = <<>>
  /\ wire = <<>>
  /\ closeCalls = 0
  /\ oncloseCalls = 0

\* send(message) up to its `await this._connect` (lines 352-353).  The k-th
\* send of a behaviour carries message k.
Send ==
  /\ UserCodeMayRun
  /\ NumSends < MaxSends
  /\ sends' = Append(sends, [readyState |-> readyState, settled |-> "pending"])
  /\ task' = TaskAfterUserCall
  /\ turn' = TurnAfterUserCall
  /\ IF ~AwaitIsDirect
     THEN /\ microtasks' = Enqueue(microtasks, Job(NumSends + 1, "thenable"))
          /\ UNCHANGED reactions
     ELSE IF AwaitParks
     THEN /\ reactions' = Enqueue(reactions, Job(NumSends + 1, "continuation"))
          /\ UNCHANGED microtasks
     ELSE /\ microtasks' = Enqueue(microtasks, Job(NumSends + 1, "continuation"))
          /\ UNCHANGED reactions
  /\ UNCHANGED <<readyState, connect, errorFired, handed, wire, closeCalls, oncloseCalls>>
  /\ UNCHANGED <<nodeVersion, spinning, callbacks, immediateQueue, phase, submitted, ran, threw>>
  /\ UNCHANGED <<emitterVars, urlVars>>

\* What this._ws.send(message) does to the promise of send(): an open socket
\* transmits.  A closing or closed socket drops the message; the browser's
\* WebSocket and ws 7 do so silently, other versions of ws throw.
SocketSendOutcomes ==
  IF readyState = "OPEN" THEN {"resolved"}
  ELSE IF isNode THEN {"resolved", "rejected"} ELSE {"resolved"}

\* The host runs the first job of its microtask queue: one step of an
\* `await this._connect`, the last of which is line 354 (or the rethrow of
\* the rejection of _connect).
RunMicrotask ==
  /\ task = NoTask
  /\ microtasks # <<>>
  /\ LET job == Head(microtasks)
         rest == Tail(microtasks)
     IN  IF job.stage = "thenable"
         THEN IF AwaitParks
              THEN /\ reactions' = Enqueue(reactions, Job(job.send, "reaction"))
                   /\ microtasks' = rest
                   /\ UNCHANGED <<sends, handed, wire>>
              ELSE /\ microtasks' = Enqueue(rest, Job(job.send, "reaction"))
                   /\ UNCHANGED <<reactions, sends, handed, wire>>
         ELSE IF job.stage = "reaction"
         THEN /\ microtasks' = Enqueue(rest, Job(job.send, "continuation"))
              /\ UNCHANGED <<reactions, sends, handed, wire>>
         ELSE IF connect = "rejected"
         THEN /\ microtasks' = rest
              /\ sends' = [sends EXCEPT ![job.send].settled = "rejected"]
              /\ UNCHANGED <<reactions, handed, wire>>
         ELSE /\ microtasks' = rest
              /\ handed' = Append(handed, job.send)
              /\ wire' = IF readyState = "OPEN" THEN Append(wire, job.send) ELSE wire
              /\ \E outcome \in SocketSendOutcomes :
                   sends' = [sends EXCEPT ![job.send].settled = outcome]
              /\ UNCHANGED reactions
  /\ UNCHANGED <<readyState, connect, errorFired, closeCalls, oncloseCalls>>
  /\ UNCHANGED schedVars
  /\ UNCHANGED <<emitterVars, urlVars>>

\* A close() that leaves the socket as it is.
SocketCloseIgnored == readyState

\* Line 358, this._ws.close(): starts the closing handshake of an open
\* socket, aborts a connecting one, and does nothing otherwise.
SocketClose == IF readyState \in {"CONNECTING", "OPEN"} THEN "CLOSING" ELSE readyState

\* close() (lines 357-359).
Close ==
  /\ UserCodeMayRun
  /\ closeCalls < MaxCloses
  /\ closeCalls' = closeCalls + 1
  /\ task' = TaskAfterUserCall
  /\ turn' = TurnAfterUserCall
  /\ readyState' = SocketClose
  /\ UNCHANGED <<microtasks, connect, reactions, errorFired, sends, handed, wire, oncloseCalls>>
  /\ UNCHANGED <<nodeVersion, spinning, callbacks, immediateQueue, phase, submitted, ran, threw>>
  /\ UNCHANGED <<emitterVars, urlVars>>

\* The embedder's task, or the onclose hook, returns.
EndTask ==
  /\ task.kind \in {"user", "onclose", "error"}
  /\ task' = NoTask
  /\ UNCHANGED <<nodeVersion, spinning, callbacks, immediateQueue, phase, turn,
                 submitted, ran, threw>>
  /\ UNCHANGED transportVars
  /\ UNCHANGED <<emitterVars, urlVars>>

\* The socket's 'open' event: the listener of line 328 fulfills _connect.
WsOpen ==
  /\ task = NoTask
  /\ phase = <<>>
  /\ microtasks = <<>>
  /\ readyState = "CONNECTING"
  /\ readyState' = "OPEN"
  /\ connect' = "fulfilled"
  /\ microtasks' = Settle(microtasks)
  /\ reactions' = <<>>
  /\ turn' = NextTurn
  /\ UNCHANGED <<errorFired, sends, handed, wire, closeCalls, oncloseCalls>>
  /\ UNCHANGED <<nodeVersion, spinning, callbacks, immediateQueue, phase, task,
                 submitted, ran, threw>>
  /\ UNCHANGED <<emitterVars, urlVars>>

\* The socket's 'error' event (a failed or aborted handshake, or an error of
\* an established connection): the listener of line 329 rejects _connect, which
\* has no effect on a settled promise; the listener of line 349 does nothing.
\* The socket is closing from then on and its 'close' event follows, in the
\* same task or in a later one.
WsError ==
  /\ task = NoTask
  /\ phase = <<>>
  /\ microtasks = <<>>
  /\ readyState \in {"CONNECTING", "OPEN", "CLOSING"}
  /\ ~errorFired
  /\ errorFired' = TRUE
  /\ readyState' = "CLOSING"
  /\ connect' = IF connect = "pending" THEN "rejected" ELSE connect
  /\ microtasks' = IF connect = "pending" THEN Settle(microtasks) ELSE microtasks
  /\ reactions' = <<>>
  /\ task' = [kind |-> "error", cb |-> 0]
  /\ turn' = NextTurn
  /\ UNCHANGED <<sends, handed, wire, closeCalls, oncloseCalls>>
  /\ UNCHANGED <<nodeVersion, spinning, callbacks, immediateQueue, phase, submitted, ran, threw>>
  /\ UNCHANGED <<emitterVars, urlVars>>

\* A 'close' listener that does not call the hook.
CallOncloseSkipped == oncloseCalls

\* Lines 345-346: the onclose hook is called.
CallOnclose == oncloseCalls + 1

\* The socket's 'close' event, which a socket dispatches once: the listener of
\* lines 344-347 calls the onclose hook.  A socket that never opened has
\* dispatched 'error' before.
WsClose ==
  /\ IF task = NoTask THEN phase = <<>> /\ microtasks = <<>> ELSE task.kind = "error"
  /\ readyState \in {"OPEN", "CLOSING"}
  /\ connect # "pending"
  /\ readyState' = "CLOSED"
  /\ oncloseCalls' = CallOnclose
  /\ task' = [kind |-> "onclose", cb |-> 0]
  /\ turn' = IF task = NoTask THEN NextTurn ELSE turn
  /\ UNCHANGED <<microtasks, connect, reactions, errorFired, sends, handed, wire, closeCalls>>
  /\ UNCHANGED <<nodeVersion, spinning, callbacks, immediateQueue, phase, submitted, ran, threw>>
  /\ UNCHANGED <<emitterVars, urlVars>>

\* The socket's 'message' event (lines 337-342): the callback that calls the
\* onmessage hook is handed to messageWrap.  The k-th frame of a behaviour
\* is callback k.
WsMessage ==
  /\ readyState \in {"OPEN", "CLOSING"}
  /\ IF MessageWrapIsScheduler
     THEN IoDefer
     ELSE /\ task = NoTask
          /\ phase = <<>>
          /\ microtasks = <<>>
          /\ NumDefers < MaxDefers
          /\ task' = CallbackTask(NumDefers + 1)
          /\ turn' = NextTurn
          /\ submitted' = Append(submitted, [cb |-> NumDefers + 1, turn |-> NextTurn])
          /\ ran' = Append(ran, [cb |-> NumDefers + 1, turn |-> NextTurn])
          /\ UNCHANGED <<nodeVersion, spinning, callbacks, immediateQueue, phase, threw>>
          /\ UNCHANGED notSchedVars

\* In Node.js the socket may dispatch several 'message' events in one task.
WsMessageSameTask ==
  /\ task = IoTask
  /\ readyState \in {"OPEN", "CLOSING"}
  /\ DeferMore

\* The outbound half of the transport: send, close and the socket's
\* connection events.
NextTransport ==
  \/ Send
  \/ RunMicrotask
  \/ Close
  \/ EndTask
  \/ WsOpen
  \/ WsError
  \/ WsClose

\* The inbound half: frames, their delivery through messageWrap, close and
\* the socket's connection events.
NextInbound ==
  \/ Close
  \/ EndTask
  \/ WsOpen
  \/ WsError
  \/ WsClose
  \/ WsMessage
  \/ WsMessageSameTask
  \/ EndIo
  \/ CheckPhase
  \/ RunImmediate
  \/ CallbackReturn
  \/ CallbackThrow

\* ------------------------------------------------------------------------
\* urlMatches
\* ------------------------------------------------------------------------

\* A string is the sequence of its lexemes: "http://host/path" is
\* <<"http:", "//", "host", "/", "path">>, and "" is <<>>.
UrlPath == <<"http:", "//", "host", "/", "path">>

UrlOther == <<"http:", "//", "host", "/", "other">>

UrlNoPath == <<"http:", "//", "host">>

UrlQuery == <<"http:", "//", "host", "/", "path", "?", "q">>

UrlDeep == <<"http:", "//", "host", "/", "path", "/", "other">>

\* The URL strings urlMatches is called with.
Urls == {UrlPath, UrlOther, UrlNoPath, UrlQuery, UrlDeep}

\* The values of the parameter match (types.URLMatch | undefined, and a value
\* of a wrong type): value holds the text of a string, the source of a
\* regular expression, or the name of a function.
NoMatch == [kind |-> "undefined", value |-> <<>>]

Text(string) == [kind |-> "string", value |-> string]

RegExp(source) == [kind |-> "regexp", value |-> source]

Function(name) == [kind |-> "function", value |-> <<name>>]

Number == [kind |-> "number", value |-> <<>>]

\* The predicates passed as match: functions of the parsed URL.
Predicates == {"pathnameIsPath", "never"}

PredicateResult(name, url) ==
  IF name = "pathnameIsPath" THEN url.pathname = <<"/", "path">> ELSE FALSE

PlainTexts ==
  Urls \cup {<<>>, <<"/">>, <<"/", "path">>, <<"/", "other">>, <<"path">>,
             <<"/", "path", "/", "other">>}

Globs == {<<"*">>, <<"*", "path">>, <<"http:", "//", "host", "/", "*">>}

\* Sources of regular expressions: "^" and "$" anchor, ".*" is any run of
\* lexemes, every other element is that lexeme.
RegExpSources == {<<"path">>, <<"^", "/", "path", "$">>, <<"host", ".*", "other">>}

Matches ==
  {NoMatch, Number}
    \cup {Text(string) : string \in PlainTexts \cup Globs}
    \cup {RegExp(source) : source \in RegExpSources}
    \cup {Function(name) : name \in Predicates}

\* RegExp.prototype.test on a string, for the sources above.
RECURSIVE MatchesHere(_, _)
MatchesHere(source, string) ==
  IF source = <<>> THEN TRUE
  ELSE IF Head(source) = "$" THEN string = <<>>
  ELSE IF Head(source) = ".*"
  THEN \E k \in 0..Len(string) :
         MatchesHere(Tail(source), SubSeq(string, k + 1, Len(string)))
  ELSE IF string = <<>> THEN FALSE
  ELSE Head(string) = Head(source) /\ MatchesHere(Tail(source), Tail(string))

Test(regexp, string) ==
  IF regexp.value # <<>> /\ Head(regexp.value) = "^"
  THEN MatchesHere(Tail(regexp.value), string)
  ELSE \E k \in 0..Len(string) :
         MatchesHere(regexp.value, SubSeq(string, k + 1, Len(string)))

\* helper.isString.
isString(match) == match.kind = "string"

\* helper.globToRegex: the regular expression that matches exactly the
\* strings the glob matches, "*" standing for any run of lexemes.
globToRegex(glob) ==
  RegExp(<<"^">>
           \o [i \in 1..Len(glob.value) |->
                 IF glob.value[i] = "*" THEN ".*" ELSE glob.value[i]]
           \o <<"$">>)

\* new URL(urlString) succeeds on an absolute URL.
IsAbsoluteUrl(string) ==
  /\ Len(string) >= 3
  /\ string[1] = "http:"
  /\ string[2] = "//"
  /\ string[3] \notin {"/", "?", "#"}

\* new URL(urlString).pathname: what follows the host up to the query, "/"
\* when that is empty.
Pathname(string) ==
  LET rest == SubSeq(string, 4, Len(string))
      stops == {i \in 1..Len(rest) : rest[i] \in {"?", "#"}}
      end == IF stops = {} THEN Len(rest)
             ELSE (CHOOSE i \in stops : \A j \in stops : i =< j) - 1
      path == SubSeq(rest, 1, end)
  IN  IF path = <<>> THEN <<"/">> ELSE path

Bool(b) == IF b THEN "true" ELSE "false"

\* urlMatches (lines 221-236): "true", "false", or the error it throws.
urlMatches(urlString, match) ==
  IF match.kind = "undefined" \/ match = Text(<<>>) THEN "true"
  ELSE LET converted == IF isString(match) THEN globToRegex(match) ELSE match
       IN  IF converted.kind = "regexp" THEN Bool(Test(converted, urlString))
           ELSE IF converted.kind = "string" /\ converted.value = urlString THEN "true"
           ELSE IF ~IsAbsoluteUrl(urlString) THEN "TypeError"
           ELSE IF converted.kind = "string"
           THEN Bool(Pathname(urlString) = converted.value)
           ELSE IF converted.kind # "function" THEN "AssertionError"
           ELSE Bool(PredicateResult(converted.value[1],
                                     [pathname |-> Pathname(urlString)]))

\* No call of urlMatches is being looked at.
InitNoUrlCall ==
  /\ argUrlString = <<>>
  /\ argMatch = NoMatch
  /\ returned = Undefined

\* A call urlMatches(argUrlString, argMatch) runs.
UrlMatchesCall ==
  /\ returned = Undefined
  /\ returned' = Some(urlMatches(argUrlString, argMatch))
  /\ UNCHANGED <<argUrlString, argMatch>>
  /\ UNCHANGED <<emitterVars, schedVars, transportVars>>

NextUrl == UrlMatchesCall

Init == InitEmitter /\ InitSched /\ InitTransport

\* EventEmitterImpl is the EventEmitter only outside Node.js (line 55).
InitWeb == Init /\ InitNoUrlCall /\ nodeVersion = Undefined

SpecEmitter == InitWeb /\ [][NextEmitter]_vars

\* makeWaitForNextTask is only called in Node.js (lines 281, 335).
InitNode == Init /\ InitNoUrlCall /\ nodeVersion \in Hosts \ {Undefined}

SpecSched == InitNode /\ [][NextSched]_vars

\* The event loop of Node.js goes on: running code returns or throws, and a
\* queued immediate is run in a check phase, each within finite time.
SpecSchedFair ==
  /\ SpecSched
  /\ WF_vars(EndIo)
  /\ WF_vars(CheckPhase)
  /\ WF_vars(RunImmediate)
  /\ WF_vars(CallbackReturn \/ CallbackThrow)

\* A WebSocketTransport right after its construction, in any host.
InitAnyHost == Init /\ InitNoUrlCall /\ nodeVersion \in Hosts

SpecTransport == InitAnyHost /\ [][NextTransport]_vars

\* The host runs a queued microtask and lets a running task return, and a
\* socket that is closing dispatches its events, each within finite time.
SpecTransportFair ==
  /\ SpecTransport
  /\ WF_vars(RunMicrotask)
  /\ WF_vars(EndTask)
  /\ WF_vars(WsError)
  /\ WF_vars(WsClose)

SpecInbound == InitAnyHost /\ [][NextInbound]_vars

\* A call of urlMatches with any of the URLs and any of the values of match.
InitUrl ==
  /\ Init
  /\ nodeVersion \in Hosts
  /\ argUrlString \in Urls \cup {<<"/", "path">>}
  /\ argMatch \in Matches
  /\ returned = Undefined

SpecUrl == InitUrl /\ [][NextUrl]_vars

\* ------------------------------------------------------------------------
\* Properties of EventEmitterImpl
\* ------------------------------------------------------------------------

\* The user functions invoked so far, in order.
InvokedFns == [i \in 1..Len(invoked) |-> invoked[i].listener.fn]

\* How many times a listener reference has been invoked.
TimesInvoked(listener) ==
  Cardinality({i \in 1..Len(invoked) : invoked[i].listener = listener})

EmitFrames == {i \in 1..Len(stack) : stack[i].kind = "emit"}

\* C1: every pair pushed on a delivery queue is invoked exactly once and in
\* push order: the invocations are always a prefix of the pushes, and once no
\* emit is executing every pushed pair has been invoked.
C1_EveryPairInvokedOnceInOrder ==
  /\ IsPrefix(invoked, appended)
  /\ stack = <<>> => invoked = appended

\* C2: the scenario once("x", f1), on("x", f2), emit("x") at top level, f1
\* calling emit("x") and nothing else happening: when the top-level emit has
\* returned, f1 ran once and f2 twice, and only f2 is still registered.
Scenario ==
  << [op |-> "once", event |-> "x", fn |-> "f1", by |-> "top"],
     [op |-> "on", event |-> "x", fn |-> "f2", by |-> "top"],
     [op |-> "emit", event |-> "x", fn |-> "-", by |-> "top"],
     [op |-> "emit", event |-> "x", fn |-> "-", by |-> "f1"] >>

C2_ScenarioOnceReemits ==
  (history = Scenario /\ stack = <<>>) =>
    /\ InvokedFns = <<"f1", "f2", "f2">>
    /\ listeners["x"] = Some(<<PlainListener("f2")>>)
    /\ ListenerCount("x") = 1

C2_Witness ==
  /\ history = Scenario
  /\ stack = <<>>
  /\ InvokedFns = <<"f1", "f2", "f2">>
  /\ deliveryQueue = Undefined

\* C3: a closure registered by once() is invoked at most once in total, and
\* it is no longer registered while its user callback runs.
C3_OnceInvokedAtMostOnce ==
  /\ \A i \in 1..Len(invoked) :
       invoked[i].listener.wrapped # 0 => TimesInvoked(invoked[i].listener) =< 1
  /\ \A i \in 1..Len(stack) :
       (stack[i].kind = "call" /\ stack[i].listener.wrapped # 0) =>
         stack[i].listener \notin Range(Value(listeners[stack[i].listener.event]))

\* C4: at most one drain loop is on the call stack, and an emit that finds a
\* delivery queue present only appends to it: it pushes no frame and invokes
\* nothing.
C4_IsEmitStep == history' # history /\ Last(history').op = "emit"

C4_SingleDrainLoop ==
  /\ [](Cardinality(EmitFrames) =< 1)
  /\ [][(C4_IsEmitStep /\ deliveryQueue # Undefined) =>
          /\ stack' = stack
          /\ invoked' = invoked
          /\ deliveryQueue' # Undefined
          /\ IsPrefix(Value(deliveryQueue), Value(deliveryQueue'))]_vars

C4_Witness ==
  /\ history # <<>>
  /\ Last(history).op = "emit"
  /\ Last(history).by # "top"
  /\ Cardinality(EmitFrames) = 1
  /\ Len(stack) = 2
  /\ deliveryQueue # Undefined
  /\ Len(Value(deliveryQueue)) > stack[1].index + 1

\* C5: whenever no emit call is executing, the delivery queue is absent.
C5_QueueAbsentWhenIdle == stack = <<>> => deliveryQueue = Undefined

\* C6: on() is idempotent per listener reference: a registry set never holds
\* a reference twice (so listenerCount counts distinct references) and no
\* emission queues a pair twice; on() of a registered reference changes
\* nothing; after removeListener the reference is not registered.
C6_IsStep(op, event, fn) ==
  /\ history' # history
  /\ Last(history').op = op
  /\ Last(history').event = event
  /\ Last(history').fn = fn

C6_Registered(event, fn) ==
  IF listeners[event] = Undefined THEN FALSE
  ELSE PlainListener(fn) \in Range(Value(listeners[event]))

C6_OnIdempotent ==
  /\ [](\A event \in Events :
         /\ listeners[event] # Undefined => NoDuplicates(Value(listeners[event]))
         /\ listeners[event] # Undefined =>
              ListenerCount(event) = Cardinality(Range(Value(listeners[event]))))
  /\ [](NoDuplicates(appended))
  /\ [][\A event \in Events, fn \in Fns :
          /\ (C6_IsStep("on", event, fn) /\ C6_Registered(event, fn)) =>
               listeners' = listeners
          /\ C6_IsStep("on", event, fn) => C6_Registered(event, fn)'
          /\ C6_IsStep("removeListener", event, fn) => ~C6_Registered(event, fn)']_vars

C6_Witness ==
  /\ Len(history) = 4
  /\ history[1].op = "on" /\ history[2].op = "on" /\ history[3].op = "on"
  /\ history[1].event = "x" /\ history[2].event = "x" /\ history[3].event = "x"
  /\ history[1].fn = "f1" /\ history[2].fn = "f1" /\ history[3].fn = "f1"
  /\ history[4].op = "emit" /\ history[4].event = "x"
  /\ ListenerCount("x") = 1
  /\ Len(appended) = 1

\* ------------------------------------------------------------------------
\* Properties of makeWaitForNextTask
\* ------------------------------------------------------------------------

CallbackIds(log) == [i \in 1..Len(log) |-> log[i].cb]

\* The turn in which callback cb was passed to the scheduler.
SubmittedTurn(cb) == submitted[cb].turn

\* C7: a deferred callback runs in a turn strictly after the turn that
\* submitted it, and callbacks run in the order they were submitted.
C7_LaterTurnFifo ==
  /\ \A i \in 1..Len(ran) : ran[i].turn > SubmittedTurn(ran[i].cb)
  /\ IsPrefix(CallbackIds(ran), CallbackIds(submitted))

\* A callback that was submitted from inside a running deferred callback,
\* behind another one already waiting, has run.
C7_Witness ==
  /\ Len(ran) = 3
  /\ SubmittedTurn(1) = SubmittedTurn(2)
  /\ SubmittedTurn(3) = ran[1].turn

\* C8: no two callbacks are invoked in the same turn, and one step of the
\* scheduler invokes at most one callback.
C8_OneCallbackPerTurn ==
  /\ [](\A i, j \in 1..Len(ran) : ran[i].turn = ran[j].turn => i = j)
  /\ [][/\ Len(ran') =< Len(ran) + 1
        /\ Len(callbacks') >= Len(callbacks) - 1]_vars

\* Under loop, three callbacks submitted in one turn have run, in three turns.
C8_Witness ==
  /\ Len(ran) = 3
  /\ ~UsesSetImmediate
  /\ SubmittedTurn(1) = SubmittedTurn(3)
  /\ ran[1].turn < ran[2].turn
  /\ ran[2].turn < ran[3].turn

\* C9: a throwing callback does not stall the queue.  While a callback runs
\* under loop, the next run of loop is already armed; whenever the host has
\* nothing left to run, every submitted callback has been invoked; and the
\* invocations follow the submission order.
HostIdle == task = NoTask /\ phase = <<>> /\ immediateQueue = <<>>

C9_ThrowDoesNotStall ==
  /\ (task.kind = "callback" /\ ~UsesSetImmediate) =>
       LoopImmediate \in Range(immediateQueue)
  /\ HostIdle => (callbacks = <<>> /\ CallbackIds(ran) = CallbackIds(submitted))
  /\ IsPrefix(CallbackIds(ran), CallbackIds(submitted))

\* The first of three callbacks threw, with the second already queued behind
\* it and the third deferred later; all three have been invoked.
C9_Witness ==
  /\ threw = {1}
  /\ ~UsesSetImmediate
  /\ HostIdle
  /\ CallbackIds(ran) = <<1, 2, 3>>
  /\ SubmittedTurn(1) = SubmittedTurn(2)
  /\ SubmittedTurn(3) > ran[1].turn


\* ------------------------------------------------------------------------
\* Properties of WebSocketTransport
\* ------------------------------------------------------------------------

IssuedWhileConnecting(send) == sends[send].readyState = "CONNECTING"

\* C10: the sends issued while the socket was connecting reach the socket in
\* call order and before every send issued later; and once the socket has
\* opened and the microtasks queued by that have run, all of them have
\* reached the socket.
C10_PendingSendsInCallOrder ==
  /\ \A p, q \in 1..Len(handed) :
       (p < q /\ IssuedWhileConnecting(handed[q])) =>
         (IssuedWhileConnecting(handed[p]) /\ handed[p] < handed[q])
  /\ (connect = "fulfilled" /\ task = NoTask /\ microtasks = <<>>) =>
       \A send \in 1..Len(sends) :
         IssuedWhileConnecting(send) => send \in Range(handed)

\* Two sends were issued while connecting and a third after the socket
\* opened; the socket got them as 1, 2, 3.
C10_Witness ==
  /\ Len(sends) = 3
  /\ IssuedWhileConnecting(1)
  /\ IssuedWhileConnecting(2)
  /\ sends[3].readyState = "OPEN"
  /\ handed = <<1, 2, 3>>
  /\ wire = <<1, 2, 3>>

\* C11: when the connection is closed without having opened, by a socket
\* error, a close of the peer or close() while connecting, _connect is
\* rejected: nothing has been handed to the socket or transmitted, no
\* continuation is left registered, and once the queued microtasks have run
\* every send is rejected.
C11_HandshakeFailureRejectsSends ==
  /\ readyState = "CLOSED" => connect # "pending"
  /\ connect = "rejected" => (handed = <<>> /\ wire = <<>> /\ reactions = <<>>)
  /\ (connect = "rejected" /\ task = NoTask /\ microtasks = <<>>) =>
       \A send \in 1..Len(sends) : sends[send].settled = "rejected"

\* close() was called while connecting with two sends pending; the socket
\* is closed and both are rejected.
C11_Witness ==
  /\ readyState = "CLOSED"
  /\ closeCalls = 1
  /\ connect = "rejected"
  /\ Len(sends) >= 2
  /\ IssuedWhileConnecting(1)
  /\ IssuedWhileConnecting(2)
  /\ sends[1].settled = "rejected"
  /\ sends[2].settled = "rejected"
  /\ handed = <<>>

IssuedWhileClosed(send) == sends[send].readyState = "CLOSED"

\* C12: a send issued while the connection is closed, after it had opened or
\* after a failed handshake, is never transmitted and never resolved, and it
\* is rejected once the queued microtasks have run.
C12_SendWhileClosedRejected ==
  /\ \A send \in 1..Len(sends) :
       IssuedWhileClosed(send) =>
         (sends[send].settled # "resolved" /\ send \notin Range(wire))
  /\ (task = NoTask /\ microtasks = <<>>) =>
       \A send \in 1..Len(sends) :
         IssuedWhileClosed(send) => sends[send].settled = "rejected"

\* C13: the onclose hook is called at most once, whatever close() calls,
\* closes of the peer and socket errors occur and in whatever order, and it
\* has been called exactly when the connection is closed.
C13_OncloseExactlyOnce ==
  /\ oncloseCalls =< 1
  /\ readyState = "CLOSED" <=> oncloseCalls = 1

\* An open socket had an error and close() was called twice; the hook ran
\* once.
C13_Witness ==
  /\ readyState = "CLOSED"
  /\ connect = "fulfilled"
  /\ errorFired
  /\ closeCalls = 2
  /\ oncloseCalls = 1

C14_IsCloseStep == closeCalls' # closeCalls

C15_FramesOncePerTurnInOrder ==
  /\ IsPrefix(CallbackIds(ran), CallbackIds(submitted))
  /\ NoDuplicates(CallbackIds(ran))
  /\ \A i, j \in 1..Len(ran) : ran[i].turn = ran[j].turn => i = j
  /\ HostIdle => CallbackIds(ran) = CallbackIds(submitted)

\* In Node.js the socket dispatched three frames in one task; onmessage ran
\* for them in order, in three turns.
C15_Witness ==
  /\ isNode
  /\ Len(ran) = 3
  /\ CallbackIds(ran) = <<1, 2, 3>>
  /\ SubmittedTurn(1) = SubmittedTurn(3)
  /\ ran[1].turn < ran[2].turn
  /\ ran[2].turn < ran[3].turn

\* C16: while _connect is pending, which it is as long as the socket is
\* connecting, no send is settled and nothing is handed to the socket; and
\* only an open or an error event of the socket ends that: a run without
\* them leaves every send pending for ever.
C16_NoSettlementWhileConnecting ==
  /\ [](readyState = "CONNECTING" => connect = "pending")
  /\ [](connect = "pending" =>
         /\ handed = <<>>
         /\ wire = <<>>
         /\ \A send \in 1..Len(sends) : sends[send].settled = "pending")
  /\ [][(connect = "pending" /\ connect' # "pending") =>
          \/ readyState' = "OPEN"
          \/ ~errorFired /\ errorFired']_vars

\* Three sends wait on a connecting socket and the host has nothing to run.
C16_Witness ==
  /\ readyState = "CONNECTING"
  /\ Len(sends) = 3
  /\ Len(reactions) = 3
  /\ task = NoTask
  /\ microtasks = <<>>
  /\ \A send \in 1..3 : sends[send].settled = "pending"

\* A text without glob metacharacters.
IsPlainText(string) == "*" \notin Range(string)

\* C17: urlMatches takes the kinds of pattern in the stated order.  An absent
\* or empty pattern matches every URL; a glob and a regular expression are
\* tested against the full URL string; a plain text matches if it equals the
\* full URL string and otherwise exactly when it equals the pathname of the
\* URL (so "/path" matches "http://host/path" and "/other" does not); a
\* predicate is applied to the parsed URL.
C17_PatternKindsInOrder ==
  returned # Undefined =>
    /\ (argMatch = NoMatch \/ argMatch = Text(<<>>)) => Value(returned) = "true"
    /\ (argMatch.kind = "string" /\ ~IsPlainText(argMatch.value)) =>
         Value(returned) = Bool(Test(globToRegex(argMatch), argUrlString))
    /\ argMatch.kind = "regexp" =>
         Value(returned) = Bool(Test(argMatch, argUrlString))
    /\ (argMatch.kind = "string" /\ argMatch.value # <<>>
          /\ IsPlainText(argMatch.value) /\ IsAbsoluteUrl(argUrlString)) =>
         Value(returned) = Bool(\/ argMatch.value = argUrlString
                                \/ argMatch.value = Pathname(argUrlString))
    /\ (argMatch.kind = "function" /\ IsAbsoluteUrl(argUrlString)) =>
         Value(returned) = Bool(PredicateResult(argMatch.value[1],
                                                [pathname |-> Pathname(argUrlString)]))

\* C18: onmessage is never called after onclose: once the onclose hook has
\* been called, no step delivers a frame.
C18_NoMessageAfterOnclose ==
  [][oncloseCalls > 0 => ran' = ran]_vars

\* The runs of loop the host still has to make.
LoopsArmed ==
  Cardinality({i \in 1..Len(immediateQueue) : immediateQueue[i] = LoopImmediate})
    + Cardinality({i \in 1..Len(phase) : phase[i] = LoopImmediate})

\* C19: exactly one run of loop is armed while spinning is true and none
\* while it is false; spinning is true whenever the callback queue is not
\* empty; and every callback passed to the scheduler is eventually invoked.
C19_ArmedIffSpinning ==
  /\ [](LoopsArmed = IF spinning THEN 1 ELSE 0)
  /\ [](callbacks # <<>> => spinning)
  /\ \A cb \in 1..MaxDefers :
       (Len(submitted) >= cb) ~> (cb \in Range(CallbackIds(ran)))

\* Under loop, three callbacks were submitted one after the other had run,
\* all have been invoked and loop has gone idle.
C19_Witness ==
  /\ ~UsesSetImmediate
  /\ HostIdle
  /\ ~spinning
  /\ LoopsArmed = 0
  /\ CallbackIds(ran) = <<1, 2, 3>>
  /\ SubmittedTurn(2) > ran[1].turn
  /\ SubmittedTurn(3) > ran[2].turn

C20_IsRegistryStep ==
  /\ history' # history
  /\ Last(history').op \in {"on", "once", "removeListener"}

\* The listeners registered for the event, in registration order.
C20_Snapshot(event) ==
  IF listeners[event] = Undefined THEN <<>> ELSE Value(listeners[event])

\* The drain loop is about to test its condition with a pair left to invoke.
C20_PairReached ==
  IF stack = <<>> \/ deliveryQueue = Undefined THEN FALSE
  ELSE Last(stack).kind = "emit" /\ Last(stack).index < Len(Value(deliveryQueue))

\* C20: the listeners of an emission are fixed when emit is called.  emit
\* queues one pair for each listener registered at that moment; on(), once()
\* and removeListener() change neither the queue nor what has been queued;
\* the drain loop invokes the pair it reaches whether or not its listener is
\* still registered; and the invocations follow the queued pairs.
C20_ListenersFixedAtEmit ==
  /\ [](IsPrefix(invoked, appended))
  /\ [][/\ C20_IsRegistryStep =>
             (appended' = appended /\ deliveryQueue' = deliveryQueue)
        /\ C4_IsEmitStep =>
             appended' =
               appended \o Pairs(C20_Snapshot(Last(history').event), NumEmits + 1)
        /\ C20_PairReached =>
             invoked' = Append(invoked, Value(deliveryQueue)[Last(stack).index + 1])]_vars

\* f1 and f2 listen to x; during emit("x") f1 removed f2: f2 has been invoked
\* all the same, and is not registered.
C20_Witness ==
  /\ Len(history) = 4
  /\ history[1] = [op |-> "on", event |-> "x", fn |-> "f1", by |-> "top"]
  /\ history[2] = [op |-> "on", event |-> "x", fn |-> "f2", by |-> "top"]
  /\ history[3] = [op |-> "emit", event |-> "x", fn |-> "-", by |-> "top"]
  /\ history[4] = [op |-> "removeListener", event |-> "x", fn |-> "f2", by |-> "f1"]
  /\ InvokedFns = <<"f1", "f2">>
  /\ listeners["x"] = Some(<<PlainListener("f1")>>)

====
